---- MODULE Spec2Model ----
(***************************************************************************)
(* The GraphQL transport of monarchmoney-ts (src/core/transport/graphql.ts) *)
(* together with the session provider it consults (AuthService).  One call  *)
(* of query()/mutate() is a process that moves between the await points of  *)
(* execute()/performRequest()/retry(); every action is the synchronous code *)
(* that runs between two await points.  The methods of AuthService and of   *)
(* the domain clients (InsightsAPIImpl and the others) are modelled the     *)
(* same way, one call of each at a time.                                    *)
(***************************************************************************)
EXTENDS Integers, Sequences, FiniteSets, TLC

(* ------------------------------ bounds -------------------------------- *)
\* the longest list of merchants a response carries
MaxMerchants == 3
\* the largest options.limit a caller of getMerchants passes
MaxLimit == 4
\* number of query()/mutate() calls issued on the client
MaxCalls == 2
\* the clock stops advancing here
MaxTime == 1000
\* granularity of the clock
Tick == 250
\* the largest opts.retries a caller passes
MaxRetries == 1
\* the opts.timeoutMs a caller passes when it passes one
ShortTimeout == 500
\* the expiry timestamp of a session that expires during the run
ExpiryAt == 600
\* opts.retries of a call that is followed through the whole backoff sequence
BackoffRetries == 5
\* the last instant to which the clock is moved while backoff timers are awaited
BackoffHorizon == 6250

(* -------------------------- program constants -------------------------- *)
minIntervalMs == 250
DefaultRetries == 2
DefaultTimeoutMs == 30000
InitialDelay == 250
MaxDelay == 2000

\* an option the caller left out (undefined)
NoOpt == -1
\* a session without tokenExpiration
NoExp == -1
\* a tokenExpiration that Date.parse does not understand
BadExp == -2
\* no time recorded
Never == -1

Calls == 1..MaxCalls

(* ------------------------------ inputs --------------------------------- *)
\* A variables argument: undefined, or an object whose members are listed in
\* insertion order.
Undef == [def |-> FALSE, obj |-> <<>>]
Obj(members) == [def |-> TRUE, obj |-> members]
VarsChoices == {Undef, Obj(<<>>), Obj(<<"\"a\":1", "\"b\":2">>), Obj(<<"\"b\":2", "\"a\":1">>)}

DedupeChoices == {"undefined", "false"}
RetryChoices == {NoOpt} \cup (0..MaxRetries)

(* -------------------- JSON.stringify and the dedupe key ---------------- *)
RECURSIVE Join(_)
Join(members) ==
  IF members = <<>> THEN ""
  ELSE IF Len(members) = 1 THEN members[1]
  ELSE members[1] \o "," \o Join(Tail(members))

\* JSON.stringify of a variables object: members in insertion order
Stringify(v) == "{" \o Join(v.obj) \o "}"

makeDedupeKeyNoVars(query, variables) == query \o "::"

makeDedupeKey(query, variables) ==
  LET v == IF variables.def THEN Stringify(variables) ELSE ""
  IN  query \o "::" \o v

\* the variables of the request body: variables ?? {}
BodyVariables(variables) == IF variables.def THEN variables.obj ELSE <<>>

\* the value a variables argument denotes, whatever the order of its members
Normalized(variables) == {BodyVariables(variables)[i] : i \in 1..Len(BodyVariables(variables))}

(* ------------------------------ errors --------------------------------- *)
Err(cls, cat) == [ok |-> FALSE, cls |-> cls, cat |-> cat]
Payload == [ok |-> TRUE, cls |-> "data", cat |-> "none"]
NoOutcome == [ok |-> FALSE, cls |-> "none", cat |-> "none"]

AuthError == Err("AuthError", "auth")
NetworkError == Err("NetworkError", "network")
RateLimitError == Err("RateLimitError", "rate_limit")
\* what the network layer and the decoding throw
FetchErrorSystem == Err("FetchError", "system")
FetchErrorAborted == Err("FetchError", "aborted")
OtherError == Err("Error", "raw")

MonarchClasses == {"MonarchError", "AuthError", "ValidationError", "NetworkError", "RateLimitError"}
IsMonarchError(e) == e.cls \in MonarchClasses
IsFetchError(e) == e.cls = "FetchError"

normalizeHTTPError(status) ==
  IF status = 401 \/ status = 403 THEN AuthError
  ELSE IF status = 429 THEN RateLimitError
  ELSE IF status >= 500 THEN Err("MonarchError", "dependency_down")
  ELSE Err("MonarchError", "api")

normalizeGraphQLError(message) ==
  IF message = "auth" THEN AuthError
  ELSE IF message = "rate" THEN RateLimitError
  ELSE Err("MonarchError", "api")

\* the kind of the taxonomy an error belongs to
Kind(e) ==
  IF e.cls = "AuthError" THEN "Auth"
  ELSE IF e.cls = "ValidationError" THEN "Validation"
  ELSE IF e.cls = "NetworkError" THEN "Network"
  ELSE IF e.cls = "RateLimitError" THEN "RateLimit"
  ELSE IF e.cls = "EmptyResponseError" THEN "EmptyResponse"
  ELSE IF e.cls = "MonarchError" /\ e.cat = "dependency_down" THEN "DependencyDown"
  ELSE IF e.cls = "MonarchError" /\ e.cat = "api" THEN "API"
  ELSE IF e.cls = "MonarchError" THEN "Unknown"
  ELSE "Raw"

Taxonomy == {"Auth", "Validation", "Network", "RateLimit", "DependencyDown", "API", "EmptyResponse"}

(* ------------------------------- state --------------------------------- *)
VARIABLES
  now,              \* Date.now()
  session,          \* AuthService.session
  file,             \* the durable record at AuthService.sessionPath
  activeRequests,   \* GraphQLClient.activeRequests: dedupe key -> promise (its call)
  lastRequestTime,  \* GraphQLClient.lastRequestTime
  calls,            \* the query()/mutate() calls and the position of each
  authCall,         \* the call of an AuthService method and the position of it
  domainCall,       \* the call of a domain client method and the position of it
  otherFile         \* the durable record at a sessionPath passed in a call

vars == <<now, session, file, activeRequests, lastRequestTime, calls, authCall, domainCall, otherFile>>

NoSession == [held |-> FALSE, token |-> "", exp |-> NoExp, dev |-> ""]
SessionInfo(token, exp) == [held |-> TRUE, token |-> token, exp |-> exp, dev |-> "device-1"]

\* the records loadSession rethrows on: readFile fails with another code than
\* ENOENT, or the content is the JSON null and line 363 throws a TypeError
RaisingKinds == {"unreadable", "null"}

NoFile == [kind |-> "absent", s |-> NoSession]
BadFile(kind) == [kind |-> kind, s |-> NoSession]
SessionFile(s) == [kind |-> "session", s |-> s]

getSession == session

isSessionExpiredWithoutExpiry(s, t) ==
  IF ~s.held THEN FALSE
  ELSE IF s.exp = NoExp \/ s.exp = BadExp THEN TRUE
  ELSE t > s.exp

\* AuthService.isSessionExpired on a held session s at time t
isSessionExpired(s, t) ==
  IF ~s.held \/ s.exp = NoExp THEN FALSE
  ELSE IF s.exp = BadExp THEN FALSE
  ELSE t > s.exp

NoResult == [ok |-> FALSE, cls |-> "none", cat |-> "none", req |-> 0]
ResultOf(o, c) == [ok |-> o.ok, cls |-> o.cls, cat |-> o.cat, req |-> c]

\* the credential headers of a request, lines 112 and 115
NoHeaders == [authorization |-> "", device |-> ""]

buildHeadersOfHeld(s) == [authorization |-> "Token " \o session.token, device |-> session.dev]

\* buildHeaders, lines 109-118, on the session s the call resolved
buildHeaders(s) == [authorization |-> "Token " \o s.token, device |-> s.dev]

IdleCall ==
  [pc |-> "idle", op |-> "none", query |-> "", variables |-> Undef, dedupe |-> "undefined",
   retries |-> NoOpt, timeoutMs |-> NoOpt, owner |-> 0, token |-> "", dev |-> "",
   headers |-> NoHeaders,
   attempt |-> 0, delay |-> InitialDelay, wakeAt |-> Never, fetchStart |-> Never,
   status |-> 0, thrown |-> NoOutcome, outcome |-> NoOutcome, result |-> NoResult,
   \* history, read by the properties only
   netStart |-> Never, pendingAtIssue |-> {}, expiredAtIssue |-> FALSE, cred |-> "none",
   body |-> "none", all5xx |-> TRUE]

Retries(rec) == IF rec.retries = NoOpt THEN DefaultRetries ELSE rec.retries
TimeoutOf(rec) == IF rec.timeoutMs = NoOpt THEN DefaultTimeoutMs ELSE rec.timeoutMs
DedupeEnabled(rec) == rec.dedupe # "false"
KeyOf(rec) == makeDedupeKey(rec.query, rec.variables)

Settled(c) == calls[c].pc = "done"
Issued(c) == calls[c].pc # "idle"

(* --------------------------- performRequest ---------------------------- *)
\* the promise of performRequest settles with outcome o
SettleWith(rec, o) ==
  [rec EXCEPT !.pc = "settling", !.outcome = o, !.wakeAt = Never, !.fetchStart = Never]

\* attempt(): the timeout is armed and fetch() is called
StartAttempt(rec) ==
  [rec EXCEPT !.pc = "fetch", !.fetchStart = now, !.wakeAt = Never, !.status = 0,
              !.headers = buildHeaders(rec),
              !.body = "none", !.netStart = IF @ = Never THEN now ELSE @]

PaceNoWait(rec) == StartAttempt(rec)

\* lines 59-64: the pacing gate
Pace(rec) ==
  LET elapsed == now - lastRequestTime
  IN  IF elapsed < minIntervalMs
      THEN [rec EXCEPT !.pc = "pacing", !.wakeAt = now + (minIntervalMs - elapsed)]
      ELSE StartAttempt(rec)

\* lines 56-57 with the local `session` s and the provider's held session
CredentialGateNoExpiry(rec, s, held) ==
  IF ~s.held \/ s.token = "" THEN SettleWith(rec, AuthError)
  ELSE Pace([rec EXCEPT !.token = s.token, !.dev = s.dev])

CredentialGate(rec, s, held) ==
  IF ~s.held \/ s.token = "" THEN SettleWith(rec, AuthError)
  ELSE IF isSessionExpired(held, now) THEN SettleWith(rec, AuthError)
  ELSE Pace([rec EXCEPT !.token = s.token, !.dev = s.dev])

\* line 55 up to the first await
performRequest(rec) ==
  IF getSession.held
  THEN CredentialGate(
         [rec EXCEPT !.cred = IF isSessionExpired(session, now) THEN "held-expired"
                              ELSE "held-valid"],
         getSession, session)
  ELSE [rec EXCEPT !.pc = "load_read"]

\* lines 95-103: what performRequest rethrows
Classify(e) ==
  IF IsMonarchError(e) THEN e
  ELSE IF IsFetchError(e) /\ e.cat = "aborted" THEN NetworkError
  ELSE IF IsFetchError(e) THEN NetworkError
  ELSE e

\* line 134: the error ends retry()
RetryGivesUpLate(rec, e) ==
  LET isRate == e.cls = "RateLimitError"
      is5xx == IsMonarchError(e) /\ e.cat = "dependency_down"
  IN  rec.attempt > Retries(rec) \/ (~isRate /\ ~is5xx)

RetryAnyError(rec, e) == rec.attempt >= Retries(rec)

RetryGivesUp(rec, e) ==
  LET isRate == e.cls = "RateLimitError"
      is5xx == IsMonarchError(e) /\ e.cat = "dependency_down"
  IN  rec.attempt >= Retries(rec) \/ (~isRate /\ ~is5xx)

\* attempt() threw e inside retry(): lines 131-138, then 95-106
AttemptThrows(rec, e) ==
  IF RetryGivesUp(rec, e)
  THEN SettleWith([rec EXCEPT !.thrown = e], Classify(e))
  ELSE [rec EXCEPT !.pc = "backoff", !.thrown = e, !.wakeAt = now + rec.delay,
                   !.fetchStart = Never]

Min(a, b) == IF a < b THEN a ELSE b

(* ------------------------------ actions -------------------------------- *)
\* time passes
Advance ==
  /\ now + Tick <= MaxTime
  /\ now' = now + Tick
  /\ UNCHANGED <<session, file, activeRequests, lastRequestTime, calls, authCall, domainCall, otherFile>>

\* time passes until the next of the armed timers (lines 63, 70, 135) is due
AwaitTimer ==
  /\ LET Deadlines ==
           {calls[c].wakeAt : c \in {d \in Calls : calls[d].pc \in {"pacing", "backoff"}}}
           \cup {calls[c].fetchStart + TimeoutOf(calls[c]) :
                   c \in {d \in Calls : calls[d].pc = "fetch"}}
     IN  \E t \in Deadlines :
           /\ t > now /\ t <= BackoffHorizon
           /\ \A u \in Deadlines : u > now => t <= u
           /\ now' = t
  /\ UNCHANGED <<session, file, activeRequests, lastRequestTime, calls, authCall, domainCall, otherFile>>

\* the call as it enters execute()
NewCall(query, variables, dedupe, retries, timeoutMs) ==
  [IdleCall EXCEPT !.query = query, !.variables = variables, !.dedupe = dedupe,
                   !.retries = retries, !.timeoutMs = timeoutMs,
                   !.pendingAtIssue = {d \in Calls : Issued(d) /\ ~Settled(d)},
                   !.expiredAtIssue = isSessionExpired(session, now)]

\* line 38: an identical call is in flight
DedupeHitNever(rec) == FALSE

DedupeHit(rec) == DedupeEnabled(rec) /\ KeyOf(rec) \in DOMAIN activeRequests

executeNoRegister(c, rec) ==
  IF DedupeHit(rec)
  THEN /\ calls' = [calls EXCEPT ![c] =
             [rec EXCEPT !.pc = "joined", !.owner = activeRequests[KeyOf(rec)]]]
       /\ UNCHANGED activeRequests
  ELSE /\ calls' = [calls EXCEPT ![c] = performRequest([rec EXCEPT !.owner = c])]
       /\ UNCHANGED activeRequests

\* execute(), lines 37-47, with the synchronous start of performRequest
execute(c, rec) ==
  IF DedupeHit(rec)
  THEN /\ calls' = [calls EXCEPT ![c] =
             [rec EXCEPT !.pc = "joined", !.owner = activeRequests[KeyOf(rec)]]]
       /\ UNCHANGED activeRequests
  ELSE /\ calls' = [calls EXCEPT ![c] = performRequest([rec EXCEPT !.owner = c])]
       /\ activeRequests' =
            IF DedupeEnabled(rec)
            THEN [k \in DOMAIN activeRequests \cup {KeyOf(rec)} |->
                    IF k = KeyOf(rec) THEN c ELSE activeRequests[k]]
            ELSE activeRequests

MutateNoDedupe(c, rec) ==
  /\ calls' = [calls EXCEPT ![c] = performRequest([rec EXCEPT !.owner = c])]
  /\ UNCHANGED activeRequests

\* query(), lines 24-26
Query(c, rec) == execute(c, rec)

\* mutate(), lines 28-30
Mutate(c, rec) == execute(c, rec)

\* query() or mutate() is called
Call(c, I) ==
  /\ c <= I.ncalls
  /\ calls[c].pc = "idle"
  /\ \A d \in Calls : d < c => Issued(d)
  /\ \E op \in I.ops, query \in I.queries, variables \in I.variables, dedupe \in I.dedupe,
        retries \in I.retries, timeoutMs \in I.timeouts :
       LET rec == [NewCall(query, variables, dedupe, retries, timeoutMs) EXCEPT !.op = op]
       IN  IF op = "query" THEN Query(c, rec) ELSE Mutate(c, rec)
  /\ UNCHANGED <<now, session, file, lastRequestTime, authCall, domainCall, otherFile>>

\* AuthService.loadSession, lines 359-380 up to the await after readFile
LoadRead(c) ==
  /\ calls[c].pc = "load_read"
  /\ IF file.kind \in RaisingKinds
     THEN \* neither ENOENT nor a SyntaxError: AuthError('Failed to load session')
          /\ calls' = [calls EXCEPT ![c] = SettleWith([@ EXCEPT !.cred = "load-error"], AuthError)]
          /\ UNCHANGED session
     ELSE IF file.kind = "session" /\ ~isSessionExpired(file.s, now)
     THEN \* this.session = parsed; return parsed; then lines 56-64
          /\ session' = file.s
          /\ calls' = [calls EXCEPT ![c] =
               CredentialGate([@ EXCEPT !.cred = "loaded-valid"], file.s, file.s)]
     ELSE \* expired record, ENOENT, SyntaxError or no token: invalidateSession()
          /\ session' = NoSession
          /\ calls' = [calls EXCEPT ![c].pc = "load_unlink"]
  /\ UNCHANGED <<now, file, activeRequests, lastRequestTime, authCall, domainCall, otherFile>>

LoadUnlinkStamps(c) ==
  /\ calls[c].pc = "load_unlink"
  /\ \E removed \in BOOLEAN : file' = IF removed THEN NoFile ELSE file
  /\ calls' = [calls EXCEPT ![c] =
       CredentialGate([@ EXCEPT !.cred = "load-none"], NoSession, session)]
  /\ lastRequestTime' = now
  /\ UNCHANGED <<now, session, activeRequests, authCall, domainCall, otherFile>>

\* AuthService.invalidateSession, lines 385-389: the unlink succeeds or fails,
\* loadSession returns undefined and line 56 decides
LoadUnlink(c) ==
  /\ calls[c].pc = "load_unlink"
  /\ \E removed \in BOOLEAN : file' = IF removed THEN NoFile ELSE file
  /\ calls' = [calls EXCEPT ![c] =
       CredentialGate([@ EXCEPT !.cred = "load-none"], NoSession, session)]
  /\ UNCHANGED <<now, session, activeRequests, lastRequestTime, authCall, domainCall, otherFile>>

\* the pacing timer fires: lines 63-71
PacingDone(c) ==
  /\ calls[c].pc = "pacing"
  /\ now >= calls[c].wakeAt
  /\ calls' = [calls EXCEPT ![c] = StartAttempt(@)]
  /\ UNCHANGED <<now, session, file, activeRequests, lastRequestTime, authCall, domainCall, otherFile>>

ThrowKeepsTimestamp(c, e, b) ==
  LET rec == AttemptThrows(
               [calls[c] EXCEPT !.body = b, !.all5xx = @ /\ calls[c].status >= 500 /\ b = "text"], e)
  IN  /\ calls' = [calls EXCEPT ![c] = rec]
      /\ UNCHANGED lastRequestTime

\* an attempt ends by throwing e: the call backs off or its promise settles
Throw(c, e, b) ==
  LET rec == AttemptThrows(
               [calls[c] EXCEPT !.body = b, !.all5xx = @ /\ calls[c].status >= 500 /\ b = "text"], e)
  IN  /\ calls' = [calls EXCEPT ![c] = rec]
      /\ lastRequestTime' = IF rec.pc = "settling" THEN now ELSE lastRequestTime

\* the timer of line 70 has not fired yet
TimerPending(rec) == now <= rec.fetchStart + TimeoutOf(rec)

\* fetch() resolves with a response: the timeout is cleared, line 77
FetchResolve(c, I) ==
  /\ calls[c].pc = "fetch"
  /\ TimerPending(calls[c])
  /\ \E status \in I.statuses :
       calls' = [calls EXCEPT ![c].pc = "body", ![c].status = status, ![c].fetchStart = Never]
  /\ UNCHANGED <<now, session, file, activeRequests, lastRequestTime, authCall, domainCall, otherFile>>

\* fetch() rejects: the connection fails, or something else is thrown
FetchThrow(c, I) ==
  /\ calls[c].pc = "fetch"
  /\ TimerPending(calls[c])
  /\ \E e \in I.failures : Throw(c, e, "none")
  /\ UNCHANGED <<now, session, file, activeRequests, authCall, domainCall, otherFile>>

\* the timer of line 70 fires and aborts the fetch
FetchAbort(c, I) ==
  /\ calls[c].pc = "fetch"
  /\ now >= calls[c].fetchStart + TimeoutOf(calls[c])
  /\ \E e \in I.aborts : Throw(c, e, "timeout")
  /\ UNCHANGED <<now, session, file, activeRequests, authCall, domainCall, otherFile>>

\* the value of line 88
EmptyResponse == Err("MonarchError", "unknown")

\* what res.json() of line 83 decodes: whether `errors` is there, the messages
\* of its entries, and whether `data` is there and truthy
Json(hasErrors, errors, data) == [hasErrors |-> hasErrors, errors |-> errors, data |-> data]
Decoded(b) ==
  CASE b = "data" -> Json(FALSE, <<>>, TRUE)
    [] b = "data-empty-errors" -> Json(TRUE, <<>>, TRUE)
    [] b = "errors-auth" -> Json(TRUE, <<"auth">>, FALSE)
    [] b = "errors-rate" -> Json(TRUE, <<"rate">>, FALSE)
    [] b = "errors-other" -> Json(TRUE, <<"other">>, FALSE)
    [] b = "errors-other-data" -> Json(TRUE, <<"other">>, TRUE)
    [] b = "errors-auth-rate-data" -> Json(TRUE, <<"auth", "rate">>, TRUE)
    [] b = "empty" -> Json(FALSE, <<>>, FALSE)
    [] b = "empty-errors" -> Json(TRUE, <<>>, FALSE)

AttemptResultDataFirst(json) ==
  IF json.data THEN Payload
  ELSE IF json.hasErrors /\ Len(json.errors) # 0 THEN normalizeGraphQLError(json.errors[1])
  ELSE EmptyResponse

\* lines 84-90: what attempt() throws or returns on the decoded body
AttemptResult(json) ==
  IF json.hasErrors /\ Len(json.errors) # 0 THEN normalizeGraphQLError(json.errors[1])
  ELSE IF ~json.data THEN EmptyResponse
  ELSE Payload

\* the body of the response is read and decoded: lines 79-90
Body(c, I) ==
  /\ calls[c].pc = "body"
  /\ IF calls[c].status # 200
     THEN \/ Throw(c, normalizeHTTPError(calls[c].status), "text")
          \/ \E e \in I.failures : Throw(c, e, "unreadable")
     ELSE \E b \in I.bodies :
            IF b = "invalid-json" THEN \E e \in I.failures : Throw(c, e, b)
            ELSE IF AttemptResult(Decoded(b)) # Payload
              THEN Throw(c, AttemptResult(Decoded(b)), b)
            ELSE /\ calls' = [calls EXCEPT ![c] =
                      SettleWith([@ EXCEPT !.thrown = NoOutcome, !.body = b, !.all5xx = FALSE],
                                 Payload)]
                 /\ lastRequestTime' = now
  /\ UNCHANGED <<now, session, file, activeRequests, authCall, domainCall, otherFile>>

BackoffDoneNoCap(c) ==
  /\ calls[c].pc = "backoff"
  /\ now >= calls[c].wakeAt
  /\ calls' = [calls EXCEPT ![c] = StartAttempt([@ EXCEPT !.delay = @ * 2, !.attempt = @ + 1])]
  /\ UNCHANGED <<now, session, file, activeRequests, lastRequestTime, authCall, domainCall, otherFile>>

\* the backoff timer fires: lines 135-137, then the next attempt
BackoffDone(c) ==
  /\ calls[c].pc = "backoff"
  /\ now >= calls[c].wakeAt
  /\ calls' = [calls EXCEPT ![c] =
       StartAttempt([@ EXCEPT !.delay = Min(@ * 2, MaxDelay), !.attempt = @ + 1])]
  /\ UNCHANGED <<now, session, file, activeRequests, lastRequestTime, authCall, domainCall, otherFile>>

FinallyKeepsFailed(c) ==
  /\ calls[c].pc = "settling"
  /\ activeRequests' =
       IF DedupeEnabled(calls[c]) /\ calls[c].outcome.ok
       THEN [k \in DOMAIN activeRequests \ {KeyOf(calls[c])} |-> activeRequests[k]]
       ELSE activeRequests
  /\ calls' = [d \in Calls |->
       IF calls[d].owner = c /\ calls[d].pc \in {"settling", "joined"}
       THEN [calls[d] EXCEPT !.pc = "done", !.result = ResultOf(calls[c].outcome, c)]
       ELSE calls[d]]
  /\ UNCHANGED <<now, session, file, lastRequestTime, authCall, domainCall, otherFile>>

\* the finally of line 42 runs and every caller waiting on the promise settles
Finally(c) ==
  /\ calls[c].pc = "settling"
  /\ activeRequests' =
       IF DedupeEnabled(calls[c])
       THEN [k \in DOMAIN activeRequests \ {KeyOf(calls[c])} |-> activeRequests[k]]
       ELSE activeRequests
  /\ calls' = [d \in Calls |->
       IF calls[d].owner = c /\ calls[d].pc \in {"settling", "joined"}
       THEN [calls[d] EXCEPT !.pc = "done", !.result = ResultOf(calls[c].outcome, c)]
       ELSE calls[d]]
  /\ UNCHANGED <<now, session, file, lastRequestTime, authCall, domainCall, otherFile>>

(* ----------------------------- AuthService ---------------------------- *)
AuthErr(message) == [cls |-> "AuthError", msg |-> message]
ValidationErr(message) == [cls |-> "ValidationError", msg |-> message]
\* an error of the network layer, the file system or the runtime
RawErr(cls, message) == [cls |-> cls, msg |-> message]
NoErr == [cls |-> "none", msg |-> ""]

\* how a method of AuthService ended
NoAuthResult == [kind |-> "none", s |-> NoSession, b |-> FALSE, err |-> NoErr]
ReturnsSession(s) == [NoAuthResult EXCEPT !.kind = "session", !.s = s]
ReturnsAbsent == [NoAuthResult EXCEPT !.kind = "absent"]
ReturnsVoid == [NoAuthResult EXCEPT !.kind = "void"]
ReturnsBool(b) == [NoAuthResult EXCEPT !.kind = "bool", !.b = b]
Rejects(e) == [NoAuthResult EXCEPT !.kind = "error", !.err = e]

\* the body of a login response: its text and what JSON.parse makes of it
LoginBody(text, json, token, exp) == [text |-> text, json |-> json, token |-> token, exp |-> exp]
NoBody == LoginBody("", "invalid", "", NoExp)
LoginBodies ==
  { NoBody,
    LoginBody("{\"token\":\"token-2\"}", "object", "token-2", NoExp),
    LoginBody("{\"token\":\"token-2\",\"tokenExpiration\":\"T\"}", "object", "token-2", ExpiryAt),
    LoginBody("{\"detail\":\"denied\"}", "object", "", NoExp),
    LoginBody("<html>busy</html>", "invalid", "", NoExp),
    LoginBody("null", "null", "", NoExp) }
LoginStatuses == {200, 401, 403}
StatusStr(status) ==
  IF status = 200 THEN "200" ELSE IF status = 401 THEN "401" ELSE "403"
StatusText(status) ==
  IF status = 200 THEN "OK" ELSE IF status = 401 THEN "Unauthorized" ELSE "Forbidden"

\* opts.sessionPath, or the sessionPath argument of loadSession: left out, so
\* that this.sessionPath is used, or the path of another file
Paths == {"own", "other"}
\* the record at sessionPath ?? this.sessionPath, lines 359 and 393
RecordAt(sessionPath) == IF sessionPath = "own" THEN file ELSE otherFile

\* LoginOptions: email and password given or not, saveSession, sessionPath
LoginOptions == [valid : BOOLEAN, save : BOOLEAN, sessionPath : Paths]
\* TokenLoginOptions: token, saveSession, sessionPath
TokenLoginOptions == [token : {"", "token-3"}, save : BOOLEAN, sessionPath : Paths]

IdleAuth ==
  [pc |-> "idle", op |-> "none", save |-> FALSE, sessionPath |-> "own", pending |-> NoSession,
   status |-> 0, body |-> NoBody, read |-> "none", result |-> NoAuthResult,
   \* history, read by the properties only
   before |-> NoSession]

Begin(op) == [IdleAuth EXCEPT !.op = op, !.before = session]
Return(rec, r) == [rec EXCEPT !.pc = "idle", !.result = r]

\* login, lines 307-326, up to the await of fetch()
login ==
  /\ authCall.pc = "idle"
  /\ \E opts \in LoginOptions :
       authCall' =
         IF ~opts.valid
         THEN Return(Begin("login"), Rejects(ValidationErr("Email and password are required")))
         ELSE [Begin("login") EXCEPT !.pc = "login_fetch", !.save = opts.save,
                                     !.sessionPath = opts.sessionPath]
  /\ UNCHANGED <<now, session, file, activeRequests, lastRequestTime, calls, domainCall, otherFile>>

\* fetch() of line 317 resolves with a response, or rejects
LoginResponse ==
  /\ authCall.pc = "login_fetch"
  /\ \/ \E status \in LoginStatuses :
          authCall' = [authCall EXCEPT !.pc = "login_text", !.status = status]
     \/ authCall' = Return(authCall, Rejects(RawErr("FetchError", "request failed")))
  /\ UNCHANGED <<now, session, file, activeRequests, lastRequestTime, calls, domainCall, otherFile>>

\* line 330
LoginFailed(rec, b) ==
  AuthErr("Login failed: " \o StatusStr(rec.status) \o " " \o StatusText(rec.status)
          \o " - " \o b.text)

MfaOnlyWithoutBody(rec, b) == rec.status = 403 /\ b.text = ""

\* line 329
MfaRequired(rec, b) == rec.status = 403

\* lines 329-355 on the text b of the response, up to the await of saveSession
LoginDecide(rec0, b) ==
  LET rec == [rec0 EXCEPT !.body = b]
      s == SessionInfo(b.token, b.exp)
  IN  IF MfaRequired(rec, b) THEN Return(rec, Rejects(AuthErr("MFA required or invalid TOTP")))
      ELSE IF rec.status # 200 THEN Return(rec, Rejects(LoginFailed(rec, b)))
      ELSE IF b.json = "invalid"
        THEN Return(rec, Rejects(AuthErr("Login response was not valid JSON: " \o "Unexpected token")))
      ELSE IF b.json = "null"
        THEN Return(rec, Rejects(RawErr("TypeError", "Cannot read properties of null")))
      ELSE IF b.token = "" THEN Return(rec, Rejects(AuthErr("Login response missing token")))
      ELSE IF rec.save THEN [rec EXCEPT !.pc = "save", !.pending = s]
      ELSE Return(rec, ReturnsSession(s))

\* res.text() of line 328 resolves with the text, or rejects
LoginText ==
  /\ authCall.pc = "login_text"
  /\ \/ \E b \in LoginBodies : authCall' = LoginDecide(authCall, b)
     \/ authCall' = Return(authCall, Rejects(RawErr("FetchError", "body read failed")))
  /\ session' = IF authCall'.result.kind = "session" THEN authCall'.result.s ELSE session
  /\ UNCHANGED <<now, file, activeRequests, lastRequestTime, calls, domainCall, otherFile>>

\* loginWithToken, lines 293-303, up to the await of saveSession
loginWithToken(options) ==
  /\ authCall.pc = "idle"
  /\ \E opts \in options :
       LET s == SessionInfo(opts.token, NoExp)
       IN  authCall' =
             IF opts.token = ""
             THEN Return(Begin("loginWithToken"), Rejects(ValidationErr("Token is required")))
             ELSE IF opts.save
             THEN [Begin("loginWithToken") EXCEPT !.pc = "save", !.save = TRUE, !.pending = s,
                                                  !.sessionPath = opts.sessionPath]
             ELSE Return(Begin("loginWithToken"), ReturnsSession(s))
  /\ session' = IF authCall'.result.kind = "session" THEN authCall'.result.s ELSE session
  /\ UNCHANGED <<now, file, activeRequests, lastRequestTime, calls, domainCall, otherFile>>

\* fs.writeFile of line 396 leaves r at sessionPath ?? this.sessionPath
WriteRecord(sessionPath, r) ==
  IF sessionPath = "own" THEN file' = r /\ UNCHANGED otherFile
  ELSE otherFile' = r /\ UNCHANGED file

saveSessionAssignsFirst ==
  /\ authCall.pc = "save"
  /\ session' = authCall.pending
  /\ \/ /\ WriteRecord(authCall.sessionPath, SessionFile(authCall.pending))
        /\ authCall' = Return(authCall, ReturnsSession(authCall.pending))
     \/ /\ \E r \in {RecordAt(authCall.sessionPath), BadFile("garbage")} :
             WriteRecord(authCall.sessionPath, r)
        /\ authCall' = Return(authCall, Rejects(RawErr("Error", "EACCES")))
  /\ UNCHANGED <<now, activeRequests, lastRequestTime, calls, domainCall>>

\* saveSession, lines 392-397, then lines 302-303 or 354-355: the record is
\* written; or mkdir or writeFile fails, and the record is as it was or cut short
saveSession ==
  /\ authCall.pc = "save"
  /\ \/ /\ WriteRecord(authCall.sessionPath, SessionFile(authCall.pending))
        /\ session' = authCall.pending
        /\ authCall' = Return(authCall, ReturnsSession(authCall.pending))
     \/ /\ \E r \in {RecordAt(authCall.sessionPath), BadFile("garbage")} :
             WriteRecord(authCall.sessionPath, r)
        /\ authCall' = Return(authCall, Rejects(RawErr("Error", "EACCES")))
        /\ UNCHANGED session
  /\ UNCHANGED <<now, activeRequests, lastRequestTime, calls, domainCall>>

\* loadSession, lines 359-361, up to the await of readFile
loadSession ==
  /\ authCall.pc = "idle"
  /\ \E sessionPath \in Paths :
       authCall' = [Begin("loadSession") EXCEPT !.pc = "read", !.sessionPath = sessionPath]
  /\ UNCHANGED <<now, session, file, activeRequests, lastRequestTime, calls, domainCall, otherFile>>

ReadFileKeepsHeld(rec) ==
  LET record == RecordAt(rec.sessionPath)
  IN  IF record.kind \in RaisingKinds
      THEN /\ authCall' = Return(rec, Rejects(AuthErr("Failed to load session")))
           /\ UNCHANGED session
      ELSE IF record.kind = "session" /\ ~isSessionExpired(record.s, now)
      THEN /\ session' = record.s
           /\ authCall' = Return(rec, ReturnsSession(record.s))
      ELSE /\ UNCHANGED session
           /\ authCall' = [rec EXCEPT !.pc = "load_unlink"]

\* lines 361-380 once readFile has settled, up to the await of unlink
ReadFile(rec) ==
  LET record == RecordAt(rec.sessionPath)
  IN  IF record.kind \in RaisingKinds
      THEN /\ authCall' = Return(rec, Rejects(AuthErr("Failed to load session")))
           /\ UNCHANGED session
      ELSE IF record.kind = "session" /\ ~isSessionExpired(record.s, now)
      THEN /\ session' = record.s
           /\ authCall' = Return(rec, ReturnsSession(record.s))
      ELSE /\ session' = NoSession
           /\ authCall' = [rec EXCEPT !.pc = "load_unlink"]

LoadSessionRead ==
  /\ authCall.pc = "read"
  /\ ReadFile([authCall EXCEPT !.read = RecordAt(authCall.sessionPath).kind])
  /\ UNCHANGED <<now, file, activeRequests, lastRequestTime, calls, domainCall, otherFile>>

\* invalidateSession, lines 384-386, up to the await of unlink
invalidateSession ==
  /\ authCall.pc = "idle"
  /\ session' = NoSession
  /\ authCall' = [Begin("invalidateSession") EXCEPT !.pc = "inv_unlink", !.read = file.kind]
  /\ UNCHANGED <<now, file, activeRequests, lastRequestTime, calls, domainCall, otherFile>>

UnlinkRaises(rec) ==
  \/ /\ file.kind # "absent"
     /\ file' = NoFile
     /\ authCall' = Return(rec, IF rec.pc = "load_unlink" THEN ReturnsAbsent ELSE ReturnsVoid)
  \/ /\ file' = file
     /\ authCall' = Return(rec, Rejects(RawErr("Error", "ENOENT")))

\* lines 386-389: unlink removes the record, or fails and the failure is ignored
Unlink(rec) ==
  /\ \E removed \in BOOLEAN : file' = IF removed THEN NoFile ELSE file
  /\ authCall' = Return(rec, IF rec.pc = "load_unlink" THEN ReturnsAbsent ELSE ReturnsVoid)

UnlinkDone ==
  /\ authCall.pc \in {"load_unlink", "inv_unlink"}
  /\ Unlink(authCall)
  /\ UNCHANGED <<now, session, activeRequests, lastRequestTime, calls, domainCall, otherFile>>

\* isSessionExpired() is called, lines 285-290
IsSessionExpiredCalled ==
  /\ authCall.pc = "idle"
  /\ authCall' = Return(Begin("isSessionExpired"), ReturnsBool(isSessionExpired(session, now)))
  /\ UNCHANGED <<now, session, file, activeRequests, lastRequestTime, calls, domainCall, otherFile>>

(* ---------------------------- domain clients --------------------------- *)
\* InsightsAPIImpl: the methods whose catch returns an empty result
SwallowingOps ==
  {"getAdviceItems", "getSpinwheelUser", "getWeeklyRecap", "getAggregateSnapshots",
   "getCreditScoreSnapshots", "getAggregates", "getCreditScore"}
\* ReportsAPIImpl, InvestmentsAPIImpl: the catch logs and throws the error again
RethrowingOps == {"getReportConfigurations", "getPortfolio"}
\* no try around the query: InsightsAPIImpl.getSubscriptionDetails,
\* PortfolioClient, MessagingClient, TransactionsAPIImpl.getMerchants
PlainOps ==
  {"getSubscriptionDetails", "listInvestmentAccounts", "getSpinwheelCreditReport",
   "getAdvice", "getMerchants"}
DomainOps == SwallowingOps \cup RethrowingOps \cup PlainOps
\* the credit-score and spinwheel endpoints
FeatureProbes ==
  {"getSpinwheelUser", "getCreditScoreSnapshots", "getCreditScore", "getSpinwheelCreditReport"}

\* the error of a feature that is not enabled for the account: a 400
UnsupportedFeature == normalizeHTTPError(400)

\* what this.graphql.query() settles with
QueryOutcome(o, merchants) ==
  [ok |-> o.ok, cls |-> o.cls, cat |-> o.cat, merchants |-> merchants]
QueryErrors ==
  {AuthError, NetworkError, RateLimitError, normalizeHTTPError(500), UnsupportedFeature,
   Err("MonarchError", "unknown"), OtherError}

MerchantNames == {"Amazon", "Walmart", "Amazon Fresh"}
MerchantLists == UNION {[1..n -> MerchantNames] : n \in 0..MaxMerchants}
NoSearch == [given |-> FALSE, text |-> ""]
Search(text) == [given |-> TRUE, text |-> text]
SearchChoices == {NoSearch, Search("amazon"), Search("WALMART"), Search("zon f"), Search("costco")}
LimitChoices == {NoOpt} \cup (0..1) \cup {MaxLimit}

UpperCase == "ABCDEFGHIJKLMNOPQRSTUVWXYZ"
LowerCase == "abcdefghijklmnopqrstuvwxyz"
toLowerCaseChar(ch) ==
  IF \E i \in 1..Len(UpperCase) : SubSeq(UpperCase, i, i) = ch
  THEN LET i == CHOOSE i \in 1..Len(UpperCase) : SubSeq(UpperCase, i, i) = ch
       IN  SubSeq(LowerCase, i, i)
  ELSE ch
RECURSIVE toLowerCase(_)
toLowerCase(str) ==
  IF Len(str) = 0 THEN ""
  ELSE toLowerCaseChar(SubSeq(str, 1, 1)) \o toLowerCase(SubSeq(str, 2, Len(str)))

\* String.prototype.includes
includes(text, part) ==
  \E i \in 1..(Len(text) - Len(part) + 1) : SubSeq(text, i, i + Len(part) - 1) = part

\* the merchants whose name contains the search text, whatever the case
RECURSIVE filterBySearch(_, _)
filterBySearch(merchants, text) ==
  IF merchants = <<>> THEN <<>>
  ELSE LET rest == filterBySearch(Tail(merchants), text)
       IN  IF includes(toLowerCase(Head(merchants)), toLowerCase(text))
           THEN <<Head(merchants)>> \o rest
           ELSE rest

getMerchantsFalsyLimit(merchants, search, limit) ==
  LET filtered == IF search.given THEN filterBySearch(merchants, search.text) ELSE merchants
  IN  IF limit = NoOpt \/ limit = 0 THEN filtered
      ELSE SubSeq(filtered, 1, Min(limit, Len(filtered)))

\* TransactionsAPIImpl.getMerchants on the merchants of the response
getMerchants(merchants, search, limit) ==
  LET filtered == IF search.given THEN filterBySearch(merchants, search.text) ELSE merchants
  IN  IF limit = NoOpt THEN filtered
      ELSE SubSeq(filtered, 1, Min(limit, Len(filtered)))

NoReturn == [kind |-> "none", merchants |-> <<>>, err |-> NoOutcome]
ReturnsValue(merchants) == [NoReturn EXCEPT !.kind = "value", !.merchants = merchants]
ReturnsEmpty == [NoReturn EXCEPT !.kind = "empty"]
Throws(e) == [NoReturn EXCEPT !.kind = "error", !.err = e]

IdleDomain ==
  [pc |-> "idle", op |-> "none", search |-> NoSearch, limit |-> NoOpt,
   outcome |-> QueryOutcome(NoOutcome, <<>>), returned |-> NoReturn]

\* a method of a domain client is called and awaits this.graphql.query()
DomainCall ==
  /\ domainCall.pc # "query"
  /\ \E op \in DomainOps :
       IF op = "getMerchants"
       THEN \E search \in SearchChoices, limit \in LimitChoices :
              domainCall' = [IdleDomain EXCEPT !.pc = "query", !.op = op,
                                               !.search = search, !.limit = limit]
       ELSE domainCall' = [IdleDomain EXCEPT !.pc = "query", !.op = op]
  /\ UNCHANGED <<now, session, file, activeRequests, lastRequestTime, calls, authCall, otherFile>>

\* what the method makes of the outcome o of its query
DomainReturn(rec, o) ==
  IF o.ok
  THEN ReturnsValue(IF rec.op = "getMerchants"
                    THEN getMerchants(o.merchants, rec.search, rec.limit)
                    ELSE <<>>)
  ELSE IF rec.op \in SwallowingOps THEN ReturnsEmpty
  ELSE Throws([ok |-> o.ok, cls |-> o.cls, cat |-> o.cat])

\* the query settles and the method returns or throws
DomainSettle ==
  /\ domainCall.pc = "query"
  /\ \E o \in {QueryOutcome(e, <<>>) : e \in QueryErrors}
            \cup (IF domainCall.op = "getMerchants"
                  THEN {QueryOutcome(Payload, m) : m \in MerchantLists}
                  ELSE {QueryOutcome(Payload, <<>>)}) :
       domainCall' = [domainCall EXCEPT !.pc = "done", !.outcome = o,
                                        !.returned = DomainReturn(domainCall, o)]
  /\ UNCHANGED <<now, session, file, activeRequests, lastRequestTime, calls, authCall, otherFile>>

(* --------------------------- specifications ---------------------------- *)
ValidSession == SessionInfo("token-1", NoExp)
ExpiringSession == SessionInfo("token-1", ExpiryAt)
ExpiredSession == SessionInfo("token-1", 0)

\* the provider after construction, login or a restart: <<held session, record>>
Held == <<ValidSession, SessionFile(ValidSession)>>
Nothing == <<NoSession, NoFile>>
AuthStates ==
  { Held, Nothing,
    <<ExpiringSession, SessionFile(ExpiringSession)>>,
    <<ExpiredSession, SessionFile(ExpiredSession)>>,
    <<NoSession, SessionFile(ValidSession)>>,
    <<NoSession, SessionFile(ExpiredSession)>>,
    <<NoSession, BadFile("garbage")>>,
    <<NoSession, BadFile("notoken")>>,
    <<NoSession, BadFile("unreadable")>> }

InitOver(I) ==
  /\ now = minIntervalMs
  /\ \E a \in I.auth : session = a[1] /\ file = a[2]
  /\ activeRequests = <<>>
  /\ lastRequestTime = 0
  /\ calls = [c \in Calls |-> IdleCall]
  /\ authCall = IdleAuth
  /\ domainCall = IdleDomain
  /\ otherFile = NoFile

NextOver(I) ==
  \/ Advance
  \/ \E c \in Calls : Call(c, I)
  \/ \E c \in Calls : LoadRead(c)
  \/ \E c \in Calls : LoadUnlink(c)
  \/ \E c \in Calls : PacingDone(c)
  \/ \E c \in Calls : FetchResolve(c, I)
  \/ \E c \in Calls : FetchThrow(c, I)
  \/ \E c \in Calls : FetchAbort(c, I)
  \/ \E c \in Calls : Body(c, I)
  \/ \E c \in Calls : BackoffDone(c)
  \/ \E c \in Calls : Finally(c)

\* Concurrent calls that differ in their variables and in dedupe
DedupeInputs ==
  [ncalls |-> MaxCalls, ops |-> {"query"}, queries |-> {"{ accounts { id } }"}, variables |-> VarsChoices,
   dedupe |-> DedupeChoices, retries |-> {MaxRetries}, timeouts |-> {ShortTimeout},
   statuses |-> {200, 500}, bodies |-> {"data"}, failures |-> {FetchErrorSystem},
   aborts |-> {FetchErrorAborted}, auth |-> {Held, Nothing}]

Init == InitOver(DedupeInputs)
Next == NextOver(DedupeInputs)
Spec == Init /\ [][Next]_vars

Statuses == {200, 400, 401, 403, 429, 500}
Bodies == {"data", "errors-auth", "errors-rate", "errors-other", "errors-other-data",
           "empty", "empty-errors", "invalid-json"}

\* One key, every answer of the server and of the network layer
RetryInputs ==
  [ncalls |-> MaxCalls, ops |-> {"query"}, queries |-> {"{ accounts { id } }"}, variables |-> {Undef},
   dedupe |-> {"undefined"}, retries |-> RetryChoices, timeouts |-> {ShortTimeout},
   statuses |-> Statuses, bodies |-> Bodies, failures |-> {FetchErrorSystem, OtherError},
   aborts |-> {FetchErrorAborted, OtherError}, auth |-> {Held, Nothing}]

InitRetry == InitOver(RetryInputs)
NextRetry == NextOver(RetryInputs)
SpecRetry == InitRetry /\ [][NextRetry]_vars

\* Every state of the provider; each call passes dedupe: false, so each runs its own
\* performRequest and reaches the credential gate itself
CredInputs ==
  [ncalls |-> MaxCalls, ops |-> {"query"}, queries |-> {"{ accounts { id } }"}, variables |-> {Undef},
   dedupe |-> {"false"}, retries |-> {MaxRetries}, timeouts |-> {ShortTimeout},
   statuses |-> {200, 500}, bodies |-> {"data"}, failures |-> {FetchErrorSystem},
   aborts |-> {FetchErrorAborted}, auth |-> AuthStates]

InitCred == InitOver(CredInputs)
NextCred == NextOver(CredInputs)
SpecCred == InitCred /\ [][NextCred]_vars

\* Queries and mutations side by side, with and without dedupe
OpsInputs ==
  [ncalls |-> MaxCalls, ops |-> {"query", "mutate"}, queries |-> {"{ accounts { id } }"},
   variables |-> {Undef}, dedupe |-> DedupeChoices, retries |-> {MaxRetries},
   timeouts |-> {ShortTimeout}, statuses |-> {200, 500}, bodies |-> {"data"},
   failures |-> {FetchErrorSystem}, aborts |-> {FetchErrorAborted}, auth |-> {Held, Nothing}]

InitOps == InitOver(OpsInputs)
NextOps == NextOver(OpsInputs)
SpecOps == InitOps /\ [][NextOps]_vars

\* Identical dedupe-enabled calls on a session that expires during the run
OrderInputs ==
  [ncalls |-> MaxCalls, ops |-> {"query"}, queries |-> {"{ accounts { id } }"},
   variables |-> {Undef}, dedupe |-> {"undefined"}, retries |-> {MaxRetries},
   timeouts |-> {ShortTimeout}, statuses |-> {200, 500}, bodies |-> {"data"},
   failures |-> {FetchErrorSystem}, aborts |-> {FetchErrorAborted},
   auth |-> {Held, Nothing, <<ExpiringSession, SessionFile(ExpiringSession)>>}]

InitOrder == InitOver(OrderInputs)
NextOrder == NextOver(OrderInputs)
SpecOrder == InitOrder /\ [][NextOrder]_vars

\* Calls whose timers fire and whose local steps run, against a server that
\* may stop answering at any point of the exchange
LiveInputs ==
  [ncalls |-> MaxCalls, ops |-> {"query"}, queries |-> {"{ accounts { id } }"},
   variables |-> {Undef}, dedupe |-> {"undefined"}, retries |-> {MaxRetries},
   timeouts |-> {ShortTimeout}, statuses |-> {200, 500}, bodies |-> {"data"},
   failures |-> {FetchErrorSystem}, aborts |-> {FetchErrorAborted}, auth |-> {Held, Nothing}]

\* setTimeout callbacks run (lines 63, 70, 135), the clock moves on, the file
\* system answers and settled promises run their continuations; nothing is
\* assumed of the server
TimersFire ==
  /\ WF_vars(Advance)
  /\ \A c \in Calls :
       /\ WF_vars(LoadRead(c))
       /\ WF_vars(LoadUnlink(c))
       /\ WF_vars(PacingDone(c))
       /\ WF_vars(FetchAbort(c, LiveInputs))
       /\ WF_vars(BackoffDone(c))
       /\ WF_vars(Finally(c))

SpecLive == InitOver(LiveInputs) /\ [][NextOver(LiveInputs)]_vars /\ TimersFire

\* Calls with retries to spare against a server that keeps failing, followed
\* from timer to timer through their backoff waits
BackoffInputs ==
  [ncalls |-> MaxCalls, ops |-> {"query"}, queries |-> {"{ accounts { id } }"},
   variables |-> {Undef}, dedupe |-> {"false"}, retries |-> {BackoffRetries},
   timeouts |-> {NoOpt}, statuses |-> {200, 429, 500}, bodies |-> {"data"},
   failures |-> {FetchErrorSystem}, aborts |-> {FetchErrorAborted}, auth |-> {Held}]

NextBackoff ==
  \/ AwaitTimer
  \/ \E c \in Calls : Call(c, BackoffInputs)
  \/ \E c \in Calls : PacingDone(c)
  \/ \E c \in Calls : FetchResolve(c, BackoffInputs)
  \/ \E c \in Calls : Body(c, BackoffInputs)
  \/ \E c \in Calls : BackoffDone(c)
  \/ \E c \in Calls : Finally(c)

SpecBackoff == InitOver(BackoffInputs) /\ [][NextBackoff]_vars

\* Calls under way while the application logs in again or invalidates the
\* session, on a session that expires during the run
SwapInputs ==
  [ncalls |-> MaxCalls, ops |-> {"query"}, queries |-> {"{ accounts { id } }"},
   variables |-> {Undef}, dedupe |-> {"undefined"}, retries |-> {MaxRetries},
   timeouts |-> {ShortTimeout}, statuses |-> {200, 500}, bodies |-> {"data"},
   failures |-> {FetchErrorSystem}, aborts |-> {FetchErrorAborted},
   auth |-> {<<ExpiringSession, SessionFile(ExpiringSession)>>}]

\* the application imports another token without persisting it, or invalidates
NextSwap ==
  \/ NextOver(SwapInputs)
  \/ loginWithToken({[token |-> "token-3", save |-> FALSE, sessionPath |-> "own"]})
  \/ invalidateSession
  \/ UnlinkDone

SpecSwap == InitOver(SwapInputs) /\ [][NextSwap]_vars

\* Every shape of a 200 response: errors absent, empty, one or several,
\* each with and without data
BodyInputs ==
  [ncalls |-> MaxCalls, ops |-> {"query"}, queries |-> {"{ accounts { id } }"},
   variables |-> {Undef}, dedupe |-> {"undefined"}, retries |-> {MaxRetries},
   timeouts |-> {ShortTimeout}, statuses |-> {200, 500}, bodies |-> Bodies \cup {"data-empty-errors", "errors-auth-rate-data"},
   failures |-> {FetchErrorSystem}, aborts |-> {FetchErrorAborted}, auth |-> {Held, Nothing}]

SpecBody == InitOver(BodyInputs) /\ [][NextOver(BodyInputs)]_vars

\* The provider on its own: its methods called one after the other
BadExpSession == SessionInfo("token-1", BadExp)
ProviderStates ==
  AuthStates \cup { <<NoSession, BadFile("null")>>,
                    <<BadExpSession, SessionFile(BadExpSession)>> }

InitAuth == InitOver([auth |-> ProviderStates])

NextAuth ==
  \/ Advance
  \/ login
  \/ LoginResponse
  \/ LoginText
  \/ loginWithToken(TokenLoginOptions)
  \/ saveSession
  \/ loadSession
  \/ LoadSessionRead
  \/ invalidateSession
  \/ UnlinkDone
  \/ IsSessionExpiredCalled

SpecAuth == InitAuth /\ [][NextAuth]_vars

\* The domain clients over every outcome of their query
InitDomain == InitOver([auth |-> {Held}])
NextDomain == DomainCall \/ DomainSettle
SpecDomain == InitDomain /\ [][NextDomain]_vars

(* ------------------------------ properties ----------------------------- *)
\* the number of network attempts call c has made
Attempts(c) == IF calls[c].netStart = Never THEN 0 ELSE calls[c].attempt + 1
\* performRequest of call c is running
Running(c) ==
  calls[c].owner = c /\ calls[c].pc \in {"load_read", "load_unlink", "pacing", "fetch", "body", "backoff"}
\* an HTTP request of call c is outstanding
OnTheWire(c) == calls[c].owner = c /\ calls[c].pc \in {"fetch", "body"}
SameArguments(c, d) ==
  calls[c].query = calls[d].query /\ calls[c].variables = calls[d].variables
SamePair(c, d) ==
  calls[c].query = calls[d].query /\ Normalized(calls[c].variables) = Normalized(calls[d].variables)
IssuedDuring(d, c) == Issued(c) /\ Issued(d) /\ c \in calls[d].pendingAtIssue
Retryable(e) == Kind(e) \in {"RateLimit", "DependencyDown"}

\* C1: of two dedupe-enabled calls with the same operation text and variables,
\* the second issued before the first settled, the second is served by the
\* request of the first and sends nothing itself, and both settle together
\* with the identical payload or error.
DedupeCorrectness ==
  \A c, d \in Calls :
    (/\ IssuedDuring(d, c)
     /\ DedupeEnabled(calls[c]) /\ DedupeEnabled(calls[d])
     /\ SameArguments(c, d))
    => /\ calls[d].owner = calls[c].owner
       /\ calls[d].netStart = Never
       /\ Settled(c) <=> Settled(d)
       /\ calls[c].result = calls[d].result

DedupeCorrectnessWitness ==
  \E c, d \in Calls :
    /\ IssuedDuring(d, c) /\ DedupeEnabled(calls[c]) /\ DedupeEnabled(calls[d])
    /\ SameArguments(c, d)
    /\ Settled(c) /\ Settled(d)
    /\ calls[d].result.ok
    /\ Attempts(c) = 1

DedupeKeySensitivity ==
  \A c, d \in Calls :
    (/\ c # d /\ Issued(c) /\ Issued(d)
     /\ calls[c].query = calls[d].query
     /\ calls[c].variables # calls[d].variables)
    => /\ calls[c].owner # calls[d].owner
       /\ (Settled(c) /\ Settled(d)) => calls[c].result.req # calls[d].result.req

DedupeKeySensitivityWitness ==
  \E c, d \in Calls :
    /\ c # d /\ calls[c].query = calls[d].query
    /\ DedupeEnabled(calls[c]) /\ DedupeEnabled(calls[d])
    /\ Normalized(calls[c].variables) # Normalized(calls[d].variables)
    /\ OnTheWire(c) /\ OnTheWire(d)

\* C7: when a call is issued after an earlier call settled, its network
\* request starts at least minIntervalMs after the request of the earlier one.
PacingLowerBound ==
  \A c, d \in Calls :
    (/\ c < d /\ Issued(d) /\ c \notin calls[d].pendingAtIssue
     /\ calls[c].netStart # Never /\ calls[d].netStart # Never)
    => calls[d].netStart - calls[c].netStart >= minIntervalMs

PacingLowerBoundWitness ==
  \E c, d \in Calls :
    /\ c < d /\ Issued(d) /\ c \notin calls[d].pendingAtIssue
    /\ calls[c].attempt = 0 /\ calls[d].attempt = 0
    /\ calls[c].netStart # Never
    /\ calls[d].netStart = calls[c].netStart + minIntervalMs

\* C8: any two network requests made through one client start at least
\* minIntervalMs apart, also when the calls run concurrently.
GlobalPacing ==
  \A c, d \in Calls :
    (c # d /\ calls[c].netStart # Never /\ calls[d].netStart # Never)
    => \/ calls[d].netStart - calls[c].netStart >= minIntervalMs
       \/ calls[c].netStart - calls[d].netStart >= minIntervalMs

\* the attempt sequence of call c has ended
Ended(c) == calls[c].owner = c /\ calls[c].pc \in {"settling", "done"}

\* C4: no call makes more than retries + 1 attempts, and a call whose every
\* attempt was answered with a status of 500 or more makes exactly
\* retries + 1 attempts and fails with the dependency-down error.
RetryBound ==
  \A c \in Calls :
    /\ Attempts(c) <= Retries(calls[c]) + 1
    /\ (Ended(c) /\ Attempts(c) >= 1 /\ calls[c].all5xx)
       => /\ Attempts(c) = Retries(calls[c]) + 1
          /\ Kind(calls[c].outcome) = "DependencyDown"

RetryBoundWitness ==
  \E c \in Calls :
    /\ Settled(c) /\ calls[c].all5xx
    /\ calls[c].retries = NoOpt
    /\ Attempts(c) = DefaultRetries + 1
    /\ Kind(calls[c].result) = "DependencyDown"

\* C5: a call waits for a retry only after a RateLimit or dependency-down
\* error and with attempts remaining; after any other failure of an attempt
\* the call has ended in failure, and when no backoff wait came before that
\* failure the call has made exactly one attempt.
RetryOnlyTransient ==
  \A c \in Calls :
    /\ calls[c].pc = "backoff"
       => Retryable(calls[c].thrown) /\ calls[c].attempt < Retries(calls[c])
    /\ (calls[c].thrown # NoOutcome /\ ~Retryable(calls[c].thrown))
       => /\ Ended(c)
          /\ ~calls[c].outcome.ok
          /\ calls[c].delay = InitialDelay => Attempts(c) = 1

RetryOnlyTransientWitness ==
  \E c \in Calls :
    /\ Settled(c) /\ calls[c].status = 400
    /\ calls[c].retries = NoOpt
    /\ Attempts(c) = 1
    /\ calls[c].netStart = lastRequestTime

\* C9: a 200 response without errors and without data fails the call
\* with the EmptyResponseError kind.
EmptyResponseIsClassified ==
  \A c \in Calls :
    (Ended(c) /\ calls[c].status = 200 /\ calls[c].body \in {"empty", "empty-errors"})
    => Kind(calls[c].outcome) = "EmptyResponse"

\* C10: every failure reaches the caller as an error of the taxonomy.
OnlyClassifiedErrors ==
  \A c \in Calls :
    (Settled(c) /\ ~calls[c].result.ok) => Kind(calls[c].result) \in Taxonomy

\* C6: a call whose credential resolution ends without a session, or with a
\* held session that is expired, fails with AuthError and sends nothing.
CredentialGateHolds ==
  \A c \in Calls :
    calls[c].cred \in {"load-none", "held-expired"}
    => /\ Ended(c)
       /\ calls[c].outcome = AuthError
       /\ calls[c].netStart = Never
       /\ Settled(c) => calls[c].result = ResultOf(AuthError, c)

CredentialGateWitness ==
  \E c, d \in Calls :
    /\ calls[c].cred = "held-valid" /\ Settled(c) /\ calls[c].result.ok
    /\ calls[d].cred = "held-expired" /\ Settled(d)

\* C11: an attempt that has not completed when its timeout has elapsed has
\* been aborted, that is, no attempt is still reading its response after
\* the deadline; and a call that ended because its attempt timed out, or
\* because the connection failed, has failed with NetworkError.
TimeoutFailsWithNetworkError ==
  \A c \in Calls :
    /\ (calls[c].pc = "body" /\ calls[c].attempt = 0)
       => now <= calls[c].netStart + TimeoutOf(calls[c])
    /\ (Ended(c) /\ (calls[c].body = "timeout" \/ calls[c].thrown = FetchErrorSystem))
       => Kind(calls[c].outcome) = "Network"

\* the arguments call c was made with, as they enter execute()
ArgumentsOf(c) ==
  [IdleCall EXCEPT !.op = calls'[c].op, !.query = calls'[c].query,
                   !.variables = calls'[c].variables, !.dedupe = calls'[c].dedupe,
                   !.retries = calls'[c].retries, !.timeoutMs = calls'[c].timeoutMs,
                   !.pendingAtIssue = calls'[c].pendingAtIssue,
                   !.expiredAtIssue = calls'[c].expiredAtIssue]

\* C12: every step in which a call is issued, by query() or by mutate(), is
\* the transition query() makes and the transition mutate() makes from that
\* state with those arguments; and a dedupe-enabled call, of either
\* operation, issued while a call of either operation with the same text and
\* variables is pending is served by the request of that call, sends
\* nothing itself and gets the same result.
QueryMutateInterchangeable ==
  [][\A c \in Calls :
       /\ (calls[c].pc = "idle" /\ calls'[c].pc # "idle")
          => Query(c, ArgumentsOf(c)) /\ Mutate(c, ArgumentsOf(c))
       /\ \A d \in Calls :
            (/\ c \in calls'[d].pendingAtIssue /\ calls'[d].pc # "idle"
             /\ DedupeEnabled(calls'[c]) /\ DedupeEnabled(calls'[d])
             /\ calls'[c].query = calls'[d].query
             /\ calls'[c].variables = calls'[d].variables)
            => /\ calls'[d].owner = calls'[c].owner
               /\ calls'[d].netStart = Never
               /\ calls'[c].result = calls'[d].result]_vars

QueryMutateInterchangeableWitness ==
  \E c, d \in Calls :
    /\ calls[c].op = "query" /\ calls[d].op = "mutate"
    /\ IssuedDuring(d, c) /\ SameArguments(c, d)
    /\ calls[d].owner = c /\ calls[d].netStart = Never
    /\ Settled(c) /\ Settled(d) /\ calls[d].result.ok
    /\ activeRequests = <<>>

\* text contains part
Contains(text, part) ==
  \E i \in 1..(Len(text) - Len(part) + 1) : SubSeq(text, i, i + Len(part) - 1) = part
\* the session carries an expiry timestamp
HasExpiry(s) == s.held /\ s.exp \notin {NoExp, BadExp}
\* the method op of the provider has returned or thrown
Completed(op) == authCall.op = op /\ authCall.pc = "idle"

\* C13: a call of isSessionExpired() answers true exactly when a session is
\* held that carries an expiry timestamp earlier than the current time; and
\* the session a login returned from a response without tokenExpiration is
\* the held session and is not expired at any later time.
ExpiredIffExpiryInPast ==
  [][/\ (authCall'.op = "isSessionExpired" /\ authCall' # authCall)
        => authCall'.result = ReturnsBool(HasExpiry(session) /\ session.exp < now)
     /\ (authCall'.op = "login" /\ authCall'.result.kind = "session"
         /\ authCall'.body.exp = NoExp)
        => /\ session' = authCall'.result.s
           /\ ~isSessionExpired(session', now')]_vars

ExpiredIffExpiryInPastWitness ==
  /\ Completed("isSessionExpired")
  /\ authCall.result = ReturnsBool(TRUE)
  /\ session = SessionInfo("token-2", ExpiryAt)
  /\ now > ExpiryAt

\* C14: a call of invalidateSession() never ends with an error; from its
\* first step on no session is held, and it returns whether the record was
\* there or not and whether it is gone afterwards or not.
InvalidateNeverRaises ==
  authCall.op = "invalidateSession"
  => /\ authCall.result.kind # "error"
     /\ getSession = NoSession
     /\ authCall.pc = "idle" => authCall.result = ReturnsVoid

InvalidateNeverRaisesWitness ==
  /\ Completed("invalidateSession")
  /\ authCall.result = ReturnsVoid
  /\ authCall.read = "session" /\ file.kind = "session"
  /\ getSession = NoSession

\* C15: loadSession() returns absent, and does not throw, when the record
\* does not exist, when it cannot be read, when it cannot be parsed and when
\* it has no token.
LoadSessionAbsentAlike ==
  (Completed("loadSession") /\ authCall.read \in {"absent", "unreadable", "garbage", "notoken", "null"})
  => authCall.result = ReturnsAbsent

\* the text of the login response has been received
TextReceived ==
  Completed("login") /\ authCall.status # 0 /\ authCall.result.err.cls # "FetchError"

DomainClientsPropagate ==
  (domainCall.pc = "done" /\ ~domainCall.outcome.ok)
  => \/ /\ domainCall.returned.kind = "error"
        /\ QueryOutcome(domainCall.returned.err, <<>>) = domainCall.outcome
     \/ /\ domainCall.op \in FeatureProbes
        /\ domainCall.outcome = QueryOutcome(UnsupportedFeature, <<>>)
        /\ domainCall.returned.kind = "empty"

\* name contains the search text, whatever the case of either
NameMatches(name, search) ==
  ~search.given \/ Contains(toLowerCase(name), toLowerCase(search.text))

\* C18: getMerchants returns the merchants of the response that match the
\* search, in the order of the response, cut to the first limit of them
\* when a limit is given: nothing for limit 0, all matches for a limit that
\* is not below their number, and every merchant without search and limit.
GetMerchantsFiltersThenLimits ==
  (domainCall.pc = "done" /\ domainCall.op = "getMerchants" /\ domainCall.outcome.ok)
  => LET response == domainCall.outcome.merchants
         result == domainCall.returned.merchants
         limit == domainCall.limit
         Test(name) == NameMatches(name, domainCall.search)
         matches == SelectSeq(response, Test)
     IN  /\ domainCall.returned.kind = "value"
         /\ Len(result) = IF limit = NoOpt THEN Len(matches) ELSE Min(limit, Len(matches))
         /\ \A i \in 1..Len(result) : result[i] = matches[i]
         /\ limit = 0 => result = <<>>
         /\ (limit # NoOpt /\ limit >= Len(matches)) => result = matches
         /\ (limit = NoOpt /\ ~domainCall.search.given) => result = response

GetMerchantsFiltersThenLimitsWitness ==
  /\ domainCall.pc = "done" /\ domainCall.op = "getMerchants"
  /\ domainCall.search = Search("amazon") /\ domainCall.limit = 1
  /\ domainCall.outcome.merchants = <<"Walmart", "Amazon Fresh", "Amazon">>
  /\ domainCall.returned = ReturnsValue(<<"Amazon Fresh">>)

\* the request of call c has been started and its finally has not run
Pending(c) == calls[c].owner = c /\ calls[c].pc \notin {"idle", "done"}

\* C19: while the request of a dedupe-enabled call is under way its entry
\* is in the pending map, and the map holds nothing else; the entry is gone
\* once the call has settled, with success or failure, joined or not, so
\* with every call settled the map is empty; and a call issued when no
\* call with its key is pending runs a request of its own.
PendingEntryLifecycle ==
  /\ \A c \in Calls :
       (Pending(c) /\ DedupeEnabled(calls[c]))
       => /\ KeyOf(calls[c]) \in DOMAIN activeRequests
          /\ activeRequests[KeyOf(calls[c])] = c
  /\ \A k \in DOMAIN activeRequests :
       /\ Pending(activeRequests[k])
       /\ DedupeEnabled(calls[activeRequests[k]])
       /\ KeyOf(calls[activeRequests[k]]) = k
  /\ (\A c \in Calls : calls[c].pc \in {"idle", "done"}) => activeRequests = <<>>
  /\ \A d \in Calls :
       (Issued(d) /\ \A c \in calls[d].pendingAtIssue :
                        ~DedupeEnabled(calls[c]) \/ KeyOf(calls[c]) # KeyOf(calls[d]))
       => calls[d].owner = d

PendingEntryLifecycleWitness ==
  \E c, d \in Calls :
    /\ Settled(c) /\ ~calls[c].result.ok /\ calls[c].netStart # Never
    /\ DedupeEnabled(calls[c]) /\ DedupeEnabled(calls[d])
    /\ SameArguments(c, d)
    /\ c \notin calls[d].pendingAtIssue
    /\ OnTheWire(d)
    /\ activeRequests[KeyOf(calls[d])] = d

\* C20: a call is served by the request of another call only after its own
\* credential check has succeeded, and a call issued while the held session
\* is expired fails with AuthError, also when an identical call is pending.
CredentialBeforeDedupe ==
  \A d \in Calls :
    /\ (Issued(d) /\ calls[d].owner # d) => calls[d].cred \in {"held-valid", "loaded-valid"}
    /\ (Settled(d) /\ calls[d].expiredAtIssue) => calls[d].result.cls = "AuthError"

\* C21: given only that timers fire, an attempt whose response has started
\* ends: the reading of the body completes, fails or is cut by the timeout
\* of the attempt, so the call does not stay in it forever.
AttemptEndsWhileReadingBody ==
  \A c \in Calls : (calls[c].pc = "body") ~> (calls[c].pc # "body")

\* the attempt sequence of call c ends in this step: retry() settles
SequenceEnds(c) == calls[c].pc \in {"fetch", "body"} /\ calls'[c].pc = "settling"

\* C22: in the step in which the attempt sequence of a call ends, by success,
\* by a non-retryable error, by exhausted retries or by timeout, the
\* last-call timestamp becomes the current time; no other step writes it,
\* so it is written once per call that reached the network step and never
\* for a call stopped at the credential gate; and it never decreases.
TimestampWrittenAtSequenceEnd ==
  [][ /\ \A c \in Calls : SequenceEnds(c) => lastRequestTime' = now
      /\ lastRequestTime' # lastRequestTime => \E c \in Calls : SequenceEnds(c)
      /\ lastRequestTime' >= lastRequestTime
      /\ \A c \in Calls :
           calls[c].pc \in {"settling", "done"} => calls'[c].pc \in {"settling", "done"} ]_vars

TimestampWrittenAtSequenceEndWitness ==
  \E c, d \in Calls :
    /\ Settled(c) /\ calls[c].result.ok
    /\ calls[d].pc = "settling" /\ calls[d].body = "timeout"
    /\ calls[d].netStart > calls[c].netStart
    /\ lastRequestTime = now

\* the wait before the k-th retry, as the claim gives it
BackoffWait(k) == Min(250 * 2^(k - 1), 2000)

\* C23: the wait armed before the k-th retry of a call is
\* min(250 * 2^(k-1), 2000) ms and the retry does not start before it has
\* elapsed; the delay of a call depends on the number of its own retries
\* only, so it is 250 ms for a call that has not retried whatever the other
\* calls have done, and it never exceeds 2000 ms.
BackoffSequence ==
  [][\A c \in Calls :
       /\ calls'[c].delay = BackoffWait(calls'[c].attempt + 1)
       /\ calls'[c].delay <= 2000
       /\ (calls[c].pc # "backoff" /\ calls'[c].pc = "backoff")
          => calls'[c].wakeAt = now + BackoffWait(calls[c].attempt + 1)
       /\ (calls[c].pc = "backoff" /\ calls'[c].pc # "backoff")
          => /\ now >= calls[c].wakeAt
             /\ calls'[c].attempt = calls[c].attempt + 1]_vars

BackoffSequenceWitness ==
  \E c, d \in Calls :
    /\ calls[c].pc = "backoff" /\ calls[c].attempt = 4 /\ calls[c].wakeAt = now + 2000
    /\ calls[d].pc = "backoff" /\ calls[d].attempt = 0 /\ calls[d].wakeAt = now + 250

\* C24: once the transport has detected, during credential resolution, that
\* the held session is expired, and has failed the call for it, no session
\* is held in memory and the persisted record is gone.
ExpiryDetectedDestroysSession ==
  \A c \in Calls :
    (calls[c].cred = "held-expired" /\ calls[c].pc \in {"settling", "done"})
    => (~session.held /\ file.kind = "absent")

\* C25: the token and device identifier a call resolved at its credential
\* gate, from the held session or from the record it loaded, stay with the
\* call while it waits, is on the wire or backs off, whatever becomes of the
\* provider's session meanwhile, and every attempt of the call, the first
\* and each retry, sends exactly them.
CredentialFixedPerCall ==
  [][\A c \in Calls :
       /\ (calls[c].pc = "idle" /\ session.held /\ calls'[c].pc \in {"pacing", "fetch"})
          => (calls'[c].token = session.token /\ calls'[c].dev = session.dev)
       /\ (calls[c].pc = "load_read" /\ calls'[c].pc \in {"pacing", "fetch"})
          => (calls'[c].token = file.s.token /\ calls'[c].dev = file.s.dev)
       /\ calls[c].pc \in {"pacing", "fetch", "body", "backoff"}
          => (calls'[c].token = calls[c].token /\ calls'[c].dev = calls[c].dev)
       /\ (calls[c].pc # "fetch" /\ calls'[c].pc = "fetch")
          => /\ calls'[c].headers.authorization = "Token " \o calls'[c].token
             /\ calls'[c].headers.device = calls'[c].dev]_vars

CredentialFixedPerCallWitness ==
  \E c \in Calls :
    /\ calls[c].pc = "fetch" /\ calls[c].attempt = 1
    /\ calls[c].headers.authorization = "Token token-1"
    /\ session.token = "token-3"
    /\ now > ExpiryAt

\* call c is resolving its credential: line 55 awaits loadSession()
Resolving(c) == calls[c].owner = c /\ calls[c].pc \in {"load_read", "load_unlink"}
\* call c was stopped at the credential gate, lines 56-57
StoppedAtGate(c) ==
  calls[c].owner = c /\ calls[c].pc \in {"settling", "done"} /\ calls[c].netStart = Never

\* C26: the step in which a call fails at the credential gate fails it with
\* AuthError and leaves the last-call timestamp as it was; once such a call
\* has settled the pending map holds no entry of it; and a dedupe-enabled
\* call with the same text and variables issued while the first is still
\* resolving its credential joins it, sends nothing, and settles with the
\* AuthError of the first.
GateFailureFrame ==
  [][\A c \in Calls :
       /\ (~StoppedAtGate(c) /\ StoppedAtGate(c)')
          => /\ lastRequestTime' = lastRequestTime
             /\ calls'[c].outcome = AuthError
       /\ (StoppedAtGate(c)' /\ Settled(c)')
          => /\ \A k \in DOMAIN activeRequests' : activeRequests'[k] # c
             /\ calls'[c].result.cls = "AuthError"
       /\ \A d \in Calls :
            /\ (/\ Resolving(c) /\ calls[d].pc = "idle" /\ calls'[d].pc # "idle"
                /\ DedupeEnabled(calls[c]) /\ DedupeEnabled(calls'[d])
                /\ calls[c].query = calls'[d].query
                /\ calls[c].variables = calls'[d].variables)
               => (calls'[d].pc = "joined" /\ calls'[d].owner = c)
            /\ (StoppedAtGate(c)' /\ Settled(c)' /\ calls'[d].owner = c)
               => /\ calls'[d].result = calls'[c].result
                  /\ calls'[d].netStart = Never]_vars

GateFailureFrameWitness ==
  \E c, d \in Calls :
    /\ c # d /\ calls[d].owner = c /\ c \in calls[d].pendingAtIssue
    /\ calls[c].cred = "load-none"
    /\ Settled(c) /\ Settled(d)
    /\ calls[d].result.cls = "AuthError" /\ calls[d].result.req = c
    /\ lastRequestTime = 0
    /\ activeRequests = <<>>

\* the last attempt of call c ended on a 200 response whose body decoded
Answered(c) ==
  /\ calls[c].owner = c /\ calls[c].pc \in {"backoff", "settling", "done"}
  /\ calls[c].status = 200 /\ calls[c].body # "invalid-json"

\* C27: an attempt that got a 200 response whose errors array is non-empty
\* failed with the error classified from the first message of the array,
\* whether or not data came with it; and an attempt returned data only on a
\* response that carried data and whose errors were absent or empty.
ErrorsPrecedeData ==
  \A c \in Calls :
    Answered(c) =>
      LET json == Decoded(calls[c].body)
      IN  /\ (json.hasErrors /\ json.errors # <<>>)
             => calls[c].thrown = normalizeGraphQLError(Head(json.errors))
          /\ (calls[c].thrown = NoOutcome)
             => (json.data /\ (~json.hasErrors \/ json.errors = <<>>))
          /\ (calls[c].thrown = NoOutcome) <=> (calls[c].outcome = Payload)

ErrorsPrecedeDataWitness ==
  \E c, d \in Calls :
    /\ Settled(c) /\ calls[c].body = "errors-auth-rate-data"
    /\ calls[c].result.cls = "AuthError"
    /\ Settled(d) /\ calls[d].body = "data-empty-errors" /\ calls[d].result.ok
    /\ calls[d].owner = d

\* C28: once loadSession has ended, the held session is the session it
\* returned when it returned one, there is none when it returned absent,
\* whatever was held before the call, and it is the session held before the
\* call when it raised.
LoadSessionSetsHeld ==
  Completed("loadSession") =>
    /\ authCall.result.kind \in {"session", "absent", "error"}
    /\ authCall.result.kind = "session"
       => (getSession = authCall.result.s /\ getSession.held)
    /\ authCall.result.kind = "absent" => getSession = NoSession
    /\ authCall.result.kind = "error" => getSession = authCall.before

LoadSessionSetsHeldWitness ==
  /\ Completed("loadSession")
  /\ authCall.result.kind = "absent"
  /\ authCall.before = ValidSession
  /\ authCall.sessionPath = "other"
  /\ getSession = NoSession

\* loadSession(sessionPath) would return the session of the record there
Loadable(sessionPath) ==
  /\ RecordAt(sessionPath).kind = "session"
  /\ ~isSessionExpired(RecordAt(sessionPath).s, now)

\* C29: once invalidateSession() has completed and the record at the
\* provider's own path is gone, no location a login has saved a session to,
\* the own path or a sessionPath given in the call, yields a session when it
\* is loaded.
InvalidateUndoesSave ==
  (Completed("invalidateSession") /\ file.kind = "absent")
  => \A sessionPath \in Paths : ~Loadable(sessionPath)

\* login or loginWithToken returns or throws in this step
LoginEnds ==
  /\ authCall'.op \in {"login", "loginWithToken"}
  /\ authCall'.pc = "idle" /\ authCall' # authCall

\* C30: a login or loginWithToken that ends with an error, whichever it is,
\* leaves the held session the one held before the call; one that rejects
\* the input does so in the step of the call, with no request sent; and one
\* that returns a session leaves that session held.
FailedLoginKeepsSession ==
  [][LoginEnds =>
       /\ authCall'.result.kind \in {"session", "error"}
       /\ authCall'.result.kind = "error" => session' = authCall'.before
       /\ authCall'.result.kind = "session"
          => (session' = authCall'.result.s /\ session'.held)
       /\ authCall'.result.err.cls = "ValidationError"
          => (authCall.pc = "idle" /\ authCall'.status = 0 /\ session' = session)
       /\ (authCall.pc = "idle" /\ authCall'.result.kind = "error")
          => authCall'.result.err.cls = "ValidationError"]_vars

FailedLoginKeepsSessionWitness ==
  /\ Completed("login")
  /\ authCall.result = Rejects(RawErr("Error", "EACCES"))
  /\ authCall.before = ValidSession
  /\ authCall.body.token = "token-2"
  /\ getSession = ValidSession

====
